---- MODULE Spec2Model ----
(***************************************************************************)
(* State-machine model of src/ikea_simulation.js: the ikeaSimulation       *)
(* object (tick driver, node state updater, shipment processor, emission   *)
(* aggregator, vehicle animator) together with the browser event loop it   *)
(* runs on (click handlers, requestAnimationFrame callbacks, setTimeout    *)
(* timers).                                                                *)
(*                                                                         *)
(* Units.  simulationTime and currentDate are counted in 1/60 s (one frame *)
(* at speed 1), so a tick adds simulationSpeed.  Stock is counted in       *)
(* 1/3600 unit, so a tick adds to a manufacturing node as many of these as *)
(* its production_rate has units/hour.  production_rate and sales_rate are *)
(* stored doubled (RateDen), which keeps the factor 1.5 of the             *)
(* local_source scenario exact.  Emission factors and distances are        *)
(* integers of the configuration.                                          *)
(***************************************************************************)
EXTENDS Integers, Sequences, FiniteSets, Bags, TLC

VARIABLES
    isPlaying,          \* ikeaSimulation.isPlaying
    simulationSpeed,    \* ikeaSimulation.simulationSpeed
    currentScenario,    \* ikeaSimulation.currentScenario
    simulationTime,     \* ikeaSimulation.simulationTime, in 1/60 s
    currentDate,        \* ikeaSimulation.currentDate, in 1/60 s since startDate
    nodeState,          \* ikeaSimulation.nodeState
    co2Data,            \* ikeaSimulation.co2Data
    scenarioComparison, \* ikeaSimulation.scenarioComparison
    windowMap,          \* window[mapId] is defined
    theMap,             \* the cached map reference is truthy
    rafQueue,           \* requestAnimationFrame callbacks waiting for the next frame
    frameRun,           \* callbacks of the frame being run that have not run yet
    arrivalTimers,      \* pending shipment-arrival timeouts: bag of [to, size, delay]
    stepOutcome,        \* return path taken by the last simulationStep call
    afterReset,         \* no tick has run since the last resetSimulation
    movingMarkers,      \* ikeaSimulation.movingMarkers
    stepTimers,         \* per route: the animate timeout is pending
    resetTimers,        \* per route: number of pending 3 s arrival timeouts
    markerInitTimer,    \* the 1 s initializeMovingMarkers timeout is pending
    testStartTimer,     \* the 2 s "test vehicle" timeout is pending
    nodeTypes,          \* per node: nodesData[nodeId].type of the loaded configuration
    routeSpeed,         \* per route: routesData[routeId].speed of the loaded configuration
    wallClock,          \* frames (1/60 s of real time) the timed runs have shown
    dispatchLog,        \* timed runs: [timer, due, sent] of every pending arrival timeout
    shadow              \* paired runs: the state of a second run that gets the same
                        \* events but its own scenario selections

vars == <<isPlaying, simulationSpeed, currentScenario, simulationTime, currentDate,
          nodeState, co2Data, scenarioComparison, windowMap, theMap, rafQueue,
          frameRun, arrivalTimers, stepOutcome, afterReset,
          movingMarkers, stepTimers, resetTimers, markerInitTimer, testStartTimer,
          nodeTypes, routeSpeed, wallClock, dispatchLog, shadow>>

simVars == <<isPlaying, simulationTime, currentDate, nodeState, co2Data,
             scenarioComparison, theMap, arrivalTimers>>

animVars == <<movingMarkers, stepTimers, resetTimers, markerInitTimer, testStartTimer>>

\* the loaded configuration, which nothing changes
configVars == <<nodeTypes, routeSpeed>>

\* real time, which only the timed runs follow
clockVars == <<wallClock, dispatchLog>>

\* the second run, which only the paired runs follow
pairVars == <<shadow>>

-----------------------------------------------------------------------------
(* Bounds of the model *)

\* largest value of the clock, in 1/60 s: at most this many ticks between resets
MaxTime == 3
\* shipment-arrival timeouts pending at once
MaxArrivals == 1
\* requestAnimationFrame callbacks pending at once
MaxRaf == 2
\* arrival-reset timeouts pending at once for one vehicle
MaxResetTimers == 1
\* timed runs: ticks followed from the start time
MaxClockTime == 12
\* timed runs: arrival timeouts pending at once
MaxClockArrivals == 2

-----------------------------------------------------------------------------
(* Program constants *)

FrameHz == 60
SecondsPerDay == 86400
BaseProduction == 50
BaseSales == 20
RateDen == 2
MsPerHour == 3600000
MsPerSecond == 1000

Min(a, b) == IF a <= b THEN a ELSE b
Max(a, b) == IF a >= b THEN a ELSE b

-----------------------------------------------------------------------------
(* Configuration: the node and route definitions loaded before init.       *)

Scenarios == {"baseline", "green_rail", "local_source"}

\* keys a route's vehicle type may take; co2Data only has the first three
VehicleTypes == {"truck", "rail", "air", "multimodal"}

\* values the speed slider delivers
Speeds == {1, 2}

nodesData ==
    [N1_SWE   |-> [type |-> "manufacturing", capacity |-> 150, initial_stock |-> 30, coords |-> 1],
     N5_FAC   |-> [type |-> "warehouse",     capacity |-> 100, initial_stock |-> 0,   coords |-> 2],
     S1_STORE |-> [type |-> "retail",        capacity |-> 300, initial_stock |-> 40,  coords |-> 3]]

NodeIds == DOMAIN nodesData

\* Object.keys(routesData) in insertion order
RouteOrder == <<"china_poland", "store_return", "fac_outlet">>

\* fac_outlet names a destination that is no node of nodesData
routesData ==
    [china_poland |-> [from |-> "N1_SWE",   to |-> "S1_STORE", vehicle |-> "rail",
                       capacity |-> 140, emission |-> 2, frequency |-> 48, speed |-> 60],
     store_return |-> [from |-> "S1_STORE", to |-> "N5_FAC",   vehicle |-> "multimodal",
                       capacity |-> 150, emission |-> 4, frequency |-> 24, speed |-> 70],
     fac_outlet   |-> [from |-> "N5_FAC",   to |-> "N9_GONE",  vehicle |-> "air",
                       capacity |-> 100, emission |-> 50, frequency |-> 12, speed |-> 800]]

RouteIds == DOMAIN routesData

\* the waypoints of each route, as configured coordinates
routeCoordinates ==
    [china_poland |-> <<1, 2, 3>>, store_return |-> <<3, 2>>, fac_outlet |-> <<2>>]

-----------------------------------------------------------------------------
(* JavaScript numbers of the emission accumulators: a number, NaN, or the   *)
(* undefined read from a key the object does not have.                      *)

JsNum(n) == [k |-> "number", v |-> n]
JsNaN == [k |-> "NaN", v |-> 0]
JsUndefined == [k |-> "undefined", v |-> 0]

\* a += n : undefined + n and NaN + n are NaN
JsAdd(a, n) == IF a.k = "number" THEN JsNum(a.v + n) ELSE JsNaN

\* { truck: 0, rail: 0, air: 0 } : any other key reads undefined
ZeroEmissions ==
    [t \in VehicleTypes |-> IF t \in {"truck", "rail", "air"} THEN JsNum(0) ELSE JsUndefined]

-----------------------------------------------------------------------------
(* Calendar: startDate is 2024-01-01T00:00:00, a leap year.                 *)

\* first day of year (0-based) of each month of 2024, and of 2025 after it
MonthStarts == <<0, 31, 60, 91, 121, 152, 182, 213, 244, 274, 305, 335,
                 366, 397, 425, 456, 486, 517, 547, 578, 609, 639, 670, 700>>

RECURSIVE MonthFrom(_, _)
MonthFrom(day, i) ==
    IF i < Len(MonthStarts) /\ MonthStarts[i + 1] <= day THEN MonthFrom(day, i + 1) ELSE i

\* date.getMonth() + 1 for a date given in 1/60 s since startDate
MonthOf(date) ==
    ((MonthFrom(date \div (SecondsPerDay * FrameHz), 1) - 1) % 12) + 1

getSeasonalityMultiplier_NoSeptember(date) ==
    LET month == MonthOf(date) IN
    IF month = 8 THEN 18
    ELSE IF month = 1 THEN 13
    ELSE IF month = 6 \/ month = 7 THEN 8
    ELSE 10

\* getSeasonalityMultiplier, in tenths
getSeasonalityMultiplier(date) ==
    LET month == MonthOf(date) IN
    IF month = 8 \/ month = 9 THEN 18
    ELSE IF month = 1 THEN 13
    ELSE IF month = 6 \/ month = 7 THEN 8
    ELSE 10

\* great-circle distance between two configured coordinates (index pairs)
calculateDistance(c1, c2) ==
    LET lo == Min(c1, c2)
        hi == Max(c1, c2)
    IN  IF lo = hi THEN 0
        ELSE IF lo = 1 /\ hi = 2 THEN 60
        ELSE IF lo = 1 /\ hi = 3 THEN 10
        ELSE 70

-----------------------------------------------------------------------------
(* Node state updater *)

updateScenarioRates_KeepsRates(nodeId, node, scenario) ==
    IF scenario = "local_source" /\ nodeId = "N1_SWE"
    THEN [node EXCEPT !.production_rate = 0]
    ELSE node

updateScenarioRates_NoLocalOverride(nodeId, node, scenario) ==
    [node EXCEPT !.inbound_rate = 0, !.outbound_rate = 0]

\* updateScenarioRates(nodeId) applied to the node's record
updateScenarioRates(nodeId, node, scenario) ==
    LET cleared == [node EXCEPT !.inbound_rate = 0, !.outbound_rate = 0] IN
    IF scenario = "green_rail" THEN cleared
    ELSE IF scenario = "local_source" THEN
        LET a == IF nodeId = "N1_SWE" THEN [cleared EXCEPT !.production_rate = 0] ELSE cleared
        IN  IF nodeId = "N5_FAC"
            THEN [a EXCEPT !.production_rate = (a.production_rate * 3) \div 2]
            ELSE a
    ELSE cleared

UpdateNode_NoFloor(nodeId, node, multiplier, scenario) ==
    LET a == IF nodeTypes[nodeId] = "manufacturing"
             THEN LET rate == (BaseProduction * multiplier * RateDen) \div 10 IN
                  [node EXCEPT !.production_rate = rate,
                               !.stock = Min(node.capacity, node.stock + rate \div RateDen)]
             ELSE node
        b == IF nodeTypes[nodeId] = "retail"
             THEN LET rate == (BaseSales * multiplier * RateDen) \div 10 IN
                  [a EXCEPT !.sales_rate = rate,
                            !.stock = a.stock - rate \div RateDen]
             ELSE a
    IN  updateScenarioRates(nodeId, b, scenario)

\* the node update with the scenario override applied before the stock of a
\* manufacturing node is raised
UpdateNode_OverrideBeforeStock(nodeId, node, multiplier, scenario) ==
    LET a == IF nodeTypes[nodeId] = "manufacturing"
             THEN LET rate == updateScenarioRates(nodeId,
                                  [node EXCEPT !.production_rate =
                                      (BaseProduction * multiplier * RateDen) \div 10],
                                  scenario).production_rate
                  IN  [node EXCEPT !.production_rate = rate,
                                   !.stock = Min(node.capacity, node.stock + rate \div RateDen)]
             ELSE node
        b == IF nodeTypes[nodeId] = "retail"
             THEN LET rate == (BaseSales * multiplier * RateDen) \div 10 IN
                  [a EXCEPT !.sales_rate = rate,
                            !.stock = Max(0, a.stock - rate \div RateDen)]
             ELSE a
    IN  [b EXCEPT !.inbound_rate = 0, !.outbound_rate = 0]

\* the body of updateNodeStates' forEach for one node
UpdateNode(nodeId, node, multiplier, scenario) ==
    LET a == IF nodeTypes[nodeId] = "manufacturing"
             THEN LET rate == (BaseProduction * multiplier * RateDen) \div 10 IN
                  [node EXCEPT !.production_rate = rate,
                               !.stock = Min(node.capacity, node.stock + rate \div RateDen)]
             ELSE node
        b == IF nodeTypes[nodeId] = "retail"
             THEN LET rate == (BaseSales * multiplier * RateDen) \div 10 IN
                  [a EXCEPT !.sales_rate = rate,
                            !.stock = Max(0, a.stock - rate \div RateDen)]
             ELSE a
    IN  updateScenarioRates(nodeId, b, scenario)

updateNodeStates(ns, date, scenario) ==
    [n \in DOMAIN ns |-> UpdateNode(n, ns[n], getSeasonalityMultiplier(date), scenario)]

-----------------------------------------------------------------------------
(* Shipment processor.  A pass folds the routes in Object.keys order over   *)
(* st = [ns, co2, timers, threw]; a TypeError ends the pass where it is.    *)

AddEmissions_AllScenarios(co2, scenario, vehicle, emissions) ==
    [s \in DOMAIN co2 |-> [co2[s] EXCEPT ![vehicle] = JsAdd(@, emissions)]]

\* the accumulator update of line 358
AddEmissions(co2, scenario, vehicle, emissions) ==
    [co2 EXCEPT ![scenario][vehicle] = JsAdd(@, emissions)]

\* the body of processShipments' forEach for one route
ProcessRoute(st, routeId, scenario) ==
    LET route == routesData[routeId]
        fromNode == route.from
        toNode == route.to
    IN
    IF st.threw THEN st
    ELSE IF fromNode \notin DOMAIN st.ns THEN [st EXCEPT !.threw = TRUE]
    ELSE IF ~(st.ns[fromNode].stock * 5 > route.capacity * 4) THEN st
    ELSE IF fromNode \notin DOMAIN nodesData \/ toNode \notin DOMAIN nodesData
         THEN [st EXCEPT !.threw = TRUE]
    ELSE
        LET shipmentSize == Min(route.capacity, st.ns[fromNode].stock)
            distance == calculateDistance(nodesData[fromNode].coords, nodesData[toNode].coords)
            emissions == shipmentSize * distance * route.emission
        IN  [ns |-> [st.ns EXCEPT ![fromNode].stock = @ - shipmentSize,
                                  ![fromNode].outbound_rate = @ + shipmentSize],
             co2 |-> AddEmissions(st.co2, scenario, route.vehicle, emissions),
             timers |-> st.timers (+) SetToBag({[to |-> toNode, size |-> shipmentSize,
                                                 delay |-> (distance * MsPerHour)
                                                              \div routeSpeed[routeId]]}),
             threw |-> FALSE]

RECURSIVE ProcessRoutes(_, _, _)
ProcessRoutes(st, routes, scenario) ==
    IF routes = <<>> THEN st
    ELSE ProcessRoutes(ProcessRoute(st, Head(routes), scenario), Tail(routes), scenario)

processShipments(ns, co2, timers, scenario) ==
    ProcessRoutes([ns |-> ns, co2 |-> co2, timers |-> timers, threw |-> FALSE],
                  RouteOrder, scenario)

-----------------------------------------------------------------------------
(* Emission aggregator *)

SeqIncludes(s, x) == \E i \in 1..Len(s) : s[i] = x

\* Math.round(simulationTime / 86400)
TimeLabel(time) ==
    LET day == SecondsPerDay * FrameHz IN
    (time \div day) + (IF 2 * (time % day) >= day THEN 1 ELSE 0)

updateCharts_NoDedup(series, time) ==
    [s \in Scenarios |-> Append(series[s], TimeLabel(time))]

\* updateCharts: the effect on scenarioComparison
updateCharts(series, time) ==
    IF ~SeqIncludes(series["baseline"], TimeLabel(time))
    THEN [s \in Scenarios |-> Append(series[s], TimeLabel(time))]
    ELSE series

EmptySeries == [s \in Scenarios |-> <<>>]

-----------------------------------------------------------------------------
(* Tick driver *)

\* one day of the clock, in 1/60 s
DayTicks == SecondsPerDay * FrameHz

\* clock values a run is picked up at: the page load, the first instants of the
\* months after it (the January of the next year among them), and two ticks
\* before the first half day, where the day label changes
StartTimes ==
    {0, (DayTicks \div 2) - 2}
    \cup {MonthStarts[i] * DayTicks : i \in {3, 6, 7, 8, 9, 13}}

\* the clock values the model explores: MaxTime ticks from a start time
TimeWithin(time, horizon) == \E t0 \in StartTimes : t0 <= time /\ time <= t0 + horizon

TimeOK(time) == TimeWithin(time, MaxTime)

\* the values a simulationStep call that returns at once leaves behind; raf is
\* the number of frame callbacks the call requests
StepReturns(playing, outcome) ==
    [isPlaying |-> playing, theMap |-> theMap,
     simulationTime |-> simulationTime, currentDate |-> currentDate,
     nodeState |-> nodeState, co2Data |-> co2Data,
     scenarioComparison |-> scenarioComparison,
     arrivalTimers |-> arrivalTimers, raf |-> 0, outcome |-> outcome]

StepCatch_KeepsPlaying(advanced) == [advanced EXCEPT !.outcome = "threw"]

\* the catch block of simulationStep (lines 523-526)
StepCatch(advanced) == [advanced EXCEPT !.isPlaying = FALSE, !.outcome = "threw"]

\* the tick without its trailing requestAnimationFrame
StepTick_NoFrameRequest(playing) ==
    LET time == simulationTime + simulationSpeed
        date == time
        updated == updateNodeStates(nodeState, date, currentScenario)
        shipped == processShipments(updated, co2Data, arrivalTimers, currentScenario)
        advanced == [StepReturns(playing, "ran") EXCEPT
                        !.theMap = TRUE,
                        !.simulationTime = time,
                        !.currentDate = date,
                        !.nodeState = shipped.ns,
                        !.co2Data = shipped.co2,
                        !.arrivalTimers = shipped.timers]
    IN
    IF shipped.threw
    THEN StepCatch(advanced)
    ELSE [advanced EXCEPT
            !.scenarioComparison =
                IF ((time \div FrameHz) % 60) = 0
                THEN updateCharts(scenarioComparison, time)
                ELSE scenarioComparison]

\* lines 510-522 of simulationStep: the tick proper
StepTick(playing) ==
    LET time == simulationTime + simulationSpeed
        date == time
        updated == updateNodeStates(nodeState, date, currentScenario)
        shipped == processShipments(updated, co2Data, arrivalTimers, currentScenario)
        advanced == [StepReturns(playing, "ran") EXCEPT
                        !.theMap = TRUE,
                        !.simulationTime = time,
                        !.currentDate = date,
                        !.nodeState = shipped.ns,
                        !.co2Data = shipped.co2,
                        !.arrivalTimers = shipped.timers]
    IN
    IF shipped.threw
    THEN StepCatch(advanced)
    ELSE [advanced EXCEPT
            !.scenarioComparison =
                IF ((time \div FrameHz) % 60) = 0
                THEN updateCharts(scenarioComparison, time)
                ELSE scenarioComparison,
            !.raf = 1]

simulationStep_NoPlayingCheck(playing) ==
    IF ~(theMap \/ windowMap) THEN StepReturns(playing, "nomap")
    ELSE StepTick(playing)

simulationStep_NoMapCheck(playing) ==
    IF ~playing THEN StepReturns(playing, "paused")
    ELSE StepTick(playing)

\* what one call of simulationStep leaves behind, `playing` being this.isPlaying
\* at the call
simulationStep(playing) ==
    IF ~playing THEN StepReturns(playing, "paused")
    ELSE IF ~(theMap \/ windowMap) THEN StepReturns(playing, "nomap")
    ELSE StepTick(playing)

\* the state a simulationStep call leaves, as next-state values
CommitWithin(r, horizon, pending) ==
    /\ TimeWithin(r.simulationTime, horizon)
    /\ BagCardinality(r.arrivalTimers) <= pending
    /\ isPlaying' = r.isPlaying
    /\ theMap' = r.theMap
    /\ simulationTime' = r.simulationTime
    /\ currentDate' = r.currentDate
    /\ nodeState' = r.nodeState
    /\ co2Data' = r.co2Data
    /\ scenarioComparison' = r.scenarioComparison
    /\ arrivalTimers' = r.arrivalTimers
    /\ stepOutcome' = r.outcome
    /\ afterReset' = (afterReset /\ r.outcome \notin {"ran", "threw"})

Commit(r) == CommitWithin(r, MaxTime, MaxArrivals)

\* toggleSimulation, which runs the first tick itself; the tick is followed
\* up to `horizon` ticks and `pending` arrival timeouts
ToggleWithin(horizon, pending) ==
    /\ frameRun = 0
    /\ IF ~isPlaying
       THEN LET r == simulationStep(TRUE) IN
            /\ CommitWithin(r, horizon, pending)
            /\ rafQueue + r.raf <= MaxRaf
            /\ rafQueue' = rafQueue + r.raf
       ELSE /\ isPlaying' = FALSE
            /\ UNCHANGED stepOutcome
            /\ UNCHANGED <<theMap, simulationTime, currentDate, nodeState, co2Data,
                           scenarioComparison, arrivalTimers, afterReset, rafQueue>>
    /\ UNCHANGED <<simulationSpeed, currentScenario, windowMap, frameRun>>
    /\ UNCHANGED animVars
    /\ UNCHANGED configVars

\* click on playPauseBtn
ToggleSimulation ==
    /\ ToggleWithin(MaxTime, MaxArrivals)
    /\ UNCHANGED clockVars
    /\ UNCHANGED pairVars

\* one requestAnimationFrame callback runs.  The callbacks queued when a frame
\* starts all run in that frame, nothing else in between; a callback requested
\* during the frame waits for the next one.
FrameCallbackWithin(horizon, pending) ==
    /\ rafQueue + frameRun > 0
    /\ LET starting == (frameRun = 0)
           r == simulationStep(isPlaying)
       IN  /\ CommitWithin(r, horizon, pending)
           /\ frameRun' = (IF starting THEN rafQueue ELSE frameRun) - 1
           /\ rafQueue' = (IF starting THEN 0 ELSE rafQueue) + r.raf
    /\ UNCHANGED <<simulationSpeed, currentScenario, windowMap>>
    /\ UNCHANGED animVars
    /\ UNCHANGED configVars

\* a requestAnimationFrame callback runs
AnimationFrameCallback ==
    /\ FrameCallbackWithin(MaxTime, MaxArrivals)
    /\ UNCHANGED clockVars
    /\ UNCHANGED pairVars

ResetSimulation_CancelsArrivals ==
    /\ frameRun = 0
    /\ currentDate' = 0
    /\ simulationTime' = 0
    /\ isPlaying' = FALSE
    /\ nodeState' = [n \in DOMAIN nodeState |->
                        [nodeState[n] EXCEPT !.stock = nodesData[n].initial_stock,
                                             !.inbound_rate = 0,
                                             !.outbound_rate = 0]]
    /\ co2Data' = [s \in DOMAIN co2Data |-> ZeroEmissions]
    /\ scenarioComparison' = updateCharts(EmptySeries, 0)
    /\ afterReset' = TRUE
    /\ arrivalTimers' = EmptyBag
    /\ UNCHANGED <<simulationSpeed, currentScenario, windowMap, theMap, rafQueue,
                   frameRun, stepOutcome>>
    /\ UNCHANGED animVars
    /\ UNCHANGED configVars
    /\ UNCHANGED clockVars
    /\ UNCHANGED pairVars

\* resetSimulation, with its trailing updateCharts
resetSimulation ==
    /\ frameRun = 0
    /\ currentDate' = 0
    /\ simulationTime' = 0
    /\ isPlaying' = FALSE
    /\ nodeState' = [n \in DOMAIN nodeState |->
                        [nodeState[n] EXCEPT !.stock = nodesData[n].initial_stock,
                                             !.inbound_rate = 0,
                                             !.outbound_rate = 0]]
    /\ co2Data' = [s \in DOMAIN co2Data |-> ZeroEmissions]
    /\ scenarioComparison' = updateCharts(EmptySeries, 0)
    /\ UNCHANGED stepOutcome
    /\ afterReset' = TRUE
    /\ UNCHANGED <<simulationSpeed, currentScenario, windowMap, theMap, rafQueue,
                   frameRun, arrivalTimers>>
    /\ UNCHANGED animVars
    /\ UNCHANGED configVars

\* click on resetBtn
ResetSimulation ==
    /\ resetSimulation
    /\ UNCHANGED clockVars
    /\ UNCHANGED pairVars

\* input on speedSlider
SetSpeed(v) ==
    /\ frameRun = 0
    /\ v # simulationSpeed
    /\ simulationSpeed' = v
    /\ UNCHANGED stepOutcome
    /\ UNCHANGED <<isPlaying, currentScenario, simulationTime, currentDate, nodeState,
                   co2Data, scenarioComparison, windowMap, theMap, rafQueue, frameRun, arrivalTimers, afterReset>>
    /\ UNCHANGED animVars
    /\ UNCHANGED configVars
    /\ UNCHANGED clockVars
    /\ UNCHANGED pairVars

\* change on scenarioSelector
SetScenario(s) ==
    /\ frameRun = 0
    /\ s # currentScenario
    /\ currentScenario' = s
    /\ UNCHANGED stepOutcome
    /\ UNCHANGED <<isPlaying, simulationSpeed, simulationTime, currentDate, nodeState,
                   co2Data, scenarioComparison, windowMap, theMap, rafQueue, frameRun, arrivalTimers, afterReset>>
    /\ UNCHANGED animVars
    /\ UNCHANGED configVars
    /\ UNCHANGED clockVars
    /\ UNCHANGED pairVars

\* the callback of an arrival timeout (lines 363-369)
ArrivalCallback(a) ==
    /\ frameRun = 0
    /\ BagIn(a, arrivalTimers)
    /\ arrivalTimers' = arrivalTimers (-) SetToBag({a})
    /\ nodeState' =
         IF a.to \in DOMAIN nodeState
         THEN [nodeState EXCEPT
                 ![a.to].stock = Min(nodeState[a.to].capacity, @ + a.size),
                 ![a.to].inbound_rate = @ + a.size]
         ELSE nodeState
    /\ UNCHANGED stepOutcome
    /\ UNCHANGED <<isPlaying, simulationSpeed, currentScenario, simulationTime,
                   currentDate, co2Data, scenarioComparison, windowMap, theMap,
                   rafQueue, frameRun, afterReset>>
    /\ UNCHANGED animVars
    /\ UNCHANGED configVars

\* the arrival timeout of a shipment fires
ShipmentArrival(a) ==
    /\ ArrivalCallback(a)
    /\ UNCHANGED clockVars
    /\ UNCHANGED pairVars

\* the page's map object appears under window[mapId]
MapLoaded ==
    /\ frameRun = 0
    /\ ~windowMap
    /\ windowMap' = TRUE
    /\ UNCHANGED stepOutcome
    /\ UNCHANGED <<isPlaying, simulationSpeed, currentScenario, simulationTime,
                   currentDate, nodeState, co2Data, scenarioComparison, theMap,
                   rafQueue, frameRun, arrivalTimers, afterReset>>
    /\ UNCHANGED animVars
    /\ UNCHANGED configVars
    /\ UNCHANGED clockVars
    /\ UNCHANGED pairVars

-----------------------------------------------------------------------------
(* Vehicle animator.  A vehicle has at most one animate timeout pending and  *)
(* it is the one animationId names: startVehicleMovement needs isMoving      *)
(* false, which only an arrival (the timeout itself) or                      *)
(* resetVehiclePosition (which clears it) establishes.                       *)

\* calculateRouteDistance(coords): the legs between consecutive waypoints
RECURSIVE calculateRouteDistance(_)
calculateRouteDistance(coords) ==
    IF Len(coords) < 2 THEN 0
    ELSE calculateDistance(coords[1], coords[2]) + calculateRouteDistance(Tail(coords))

\* the vehicle record createMovingMarker stores for a route with 2 or more
\* waypoints; duration is in ms, fixed from the simulationSpeed of that moment;
\* marker is the index of the waypoint the map marker stands on
createMovingMarker(routeId) ==
    [isMoving |-> FALSE, currentPosition |-> 0, animationId |-> FALSE, marker |-> 0,
     duration |-> (calculateRouteDistance(routeCoordinates[routeId]) * MsPerHour)
                     \div (routeSpeed[routeId] * simulationSpeed)]

\* createMovingMarker for every route; a route with fewer than 2 waypoints gets none
CreatedMarkers ==
    [r \in {x \in RouteIds : Len(routeCoordinates[x]) >= 2} |-> createMovingMarker(r)]

\* the delay of the animate timeouts of a vehicle (line 122)
stepDuration(vehicle, routeId) ==
    vehicle.duration \div (Len(routeCoordinates[routeId]) - 1)

startVehicleMovement_NoMovingCheck(routeId, st) ==
    IF /\ routeId \in DOMAIN st.markers
       /\ Len(routeCoordinates[routeId]) > 1
    THEN [markers |-> [st.markers EXCEPT ![routeId].isMoving = TRUE,
                                         ![routeId].currentPosition = 1,
                                         ![routeId].marker = 1,
                                         ![routeId].animationId = TRUE],
          steps |-> st.steps \cup {routeId},
          resets |-> st.resets]
    ELSE st

\* startVehicleMovement(routeId) with its first, synchronous animate() call
startVehicleMovement(routeId, st) ==
    IF /\ routeId \in DOMAIN st.markers
       /\ ~st.markers[routeId].isMoving
       /\ Len(routeCoordinates[routeId]) > 1
    THEN [markers |-> [st.markers EXCEPT ![routeId].isMoving = TRUE,
                                         ![routeId].currentPosition = 1,
                                         ![routeId].marker = 1,
                                         ![routeId].animationId = TRUE],
          steps |-> st.steps \cup {routeId},
          resets |-> st.resets]
    ELSE st

\* onVehicleArrival(routeId)
onVehicleArrival(routeId, st) ==
    IF routeId \in DOMAIN st.markers
    THEN [st EXCEPT !.markers[routeId].isMoving = FALSE,
                    !.resets[routeId] = @ + 1]
    ELSE st

\* the animate closure run by its timeout
animate(routeId, st) ==
    LET vehicle == st.markers[routeId] IN
    IF ~vehicle.isMoving THEN st
    ELSE LET moved == [st EXCEPT !.markers[routeId].currentPosition = @ + 1] IN
         IF vehicle.currentPosition + 1 >= Len(routeCoordinates[routeId])
         THEN onVehicleArrival(routeId, moved)
         ELSE [moved EXCEPT !.markers[routeId].marker = vehicle.currentPosition + 1,
                            !.markers[routeId].animationId = TRUE,
                            !.steps = @ \cup {routeId}]

\* resetVehiclePosition that clears the timer and the flag but leaves the
\* vehicle where it arrived
resetVehiclePosition_StaysAtDestination(routeId, st) ==
    IF routeId \in DOMAIN st.markers
    THEN [st EXCEPT !.steps = IF st.markers[routeId].animationId
                              THEN @ \ {routeId} ELSE @,
                    !.markers[routeId].isMoving = FALSE,
                    !.markers[routeId].animationId = FALSE]
    ELSE st

\* resetVehiclePosition(routeId)
resetVehiclePosition(routeId, st) ==
    IF routeId \in DOMAIN st.markers
    THEN [st EXCEPT !.steps = IF st.markers[routeId].animationId
                              THEN @ \ {routeId} ELSE @,
                    !.markers[routeId].marker =
                        IF Len(routeCoordinates[routeId]) > 0 THEN 0 ELSE @,
                    !.markers[routeId].isMoving = FALSE,
                    !.markers[routeId].currentPosition = 0,
                    !.markers[routeId].animationId = FALSE]
    ELSE st

AnimState == [markers |-> movingMarkers, steps |-> stepTimers, resets |-> resetTimers]

CommitAnim(st) ==
    /\ \A r \in RouteIds : st.resets[r] <= MaxResetTimers
    /\ movingMarkers' = st.markers
    /\ stepTimers' = st.steps
    /\ resetTimers' = st.resets

inventoryVars == <<isPlaying, simulationSpeed, currentScenario, simulationTime,
                   currentDate, nodeState, co2Data, scenarioComparison, windowMap,
                   rafQueue, frameRun, arrivalTimers, afterReset>>

\* the 1 s timeout of DOMContentLoaded fires: initializeMovingMarkers
InitializeMovingMarkers ==
    /\ frameRun = 0
    /\ markerInitTimer
    /\ markerInitTimer' = FALSE
    /\ IF theMap \/ windowMap
       THEN /\ theMap' = TRUE
            /\ movingMarkers' = CreatedMarkers
            /\ testStartTimer' = TRUE
       ELSE UNCHANGED <<theMap, movingMarkers, testStartTimer>>
    /\ UNCHANGED stepOutcome
    /\ UNCHANGED <<stepTimers, resetTimers>>
    /\ UNCHANGED inventoryVars
    /\ UNCHANGED configVars
    /\ UNCHANGED clockVars
    /\ UNCHANGED pairVars

\* the 2 s timeout of initializeMovingMarkers fires: the test vehicle starts
TestVehicleStart ==
    /\ frameRun = 0
    /\ testStartTimer
    /\ testStartTimer' = FALSE
    /\ CommitAnim(startVehicleMovement("china_poland", AnimState))
    /\ UNCHANGED stepOutcome
    /\ UNCHANGED <<markerInitTimer, theMap>>
    /\ UNCHANGED inventoryVars
    /\ UNCHANGED configVars
    /\ UNCHANGED clockVars
    /\ UNCHANGED pairVars

\* an explicit start call from the page
StartVehicleMovement(routeId) ==
    /\ frameRun = 0
    /\ CommitAnim(startVehicleMovement(routeId, AnimState))
    /\ UNCHANGED stepOutcome
    /\ UNCHANGED <<markerInitTimer, testStartTimer, theMap>>
    /\ UNCHANGED inventoryVars
    /\ UNCHANGED configVars
    /\ UNCHANGED clockVars
    /\ UNCHANGED pairVars

\* the animate timeout of a vehicle fires
AnimateTimer(routeId) ==
    /\ frameRun = 0
    /\ routeId \in stepTimers
    /\ CommitAnim(animate(routeId, [AnimState EXCEPT !.steps = @ \ {routeId}]))
    /\ UNCHANGED stepOutcome
    /\ UNCHANGED <<markerInitTimer, testStartTimer, theMap>>
    /\ UNCHANGED inventoryVars
    /\ UNCHANGED configVars
    /\ UNCHANGED clockVars
    /\ UNCHANGED pairVars

\* the 3 s timeout of onVehicleArrival fires
ArrivalResetTimer(routeId) ==
    /\ frameRun = 0
    /\ resetTimers[routeId] > 0
    /\ CommitAnim(resetVehiclePosition(routeId,
                    [AnimState EXCEPT !.resets[routeId] = @ - 1]))
    /\ UNCHANGED stepOutcome
    /\ UNCHANGED <<markerInitTimer, testStartTimer, theMap>>
    /\ UNCHANGED inventoryVars
    /\ UNCHANGED configVars
    /\ UNCHANGED clockVars
    /\ UNCHANGED pairVars

-----------------------------------------------------------------------------
(* Specification *)

\* the state when DOMContentLoaded has run init()
Init ==
    /\ isPlaying = FALSE
    /\ simulationSpeed = 1
    /\ currentScenario = "baseline"
    /\ simulationTime = 0
    /\ currentDate = 0
    /\ nodeState = [n \in NodeIds |->
                      [stock |-> nodesData[n].initial_stock,
                       capacity |-> nodesData[n].capacity,
                       production_rate |-> 0, sales_rate |-> 0,
                       inbound_rate |-> 0, outbound_rate |-> 0]]
    /\ co2Data = [s \in Scenarios |-> ZeroEmissions]
    /\ scenarioComparison = EmptySeries
    /\ windowMap \in BOOLEAN
    /\ theMap = windowMap
    /\ rafQueue = 0
    /\ frameRun = 0
    /\ arrivalTimers = EmptyBag
    /\ stepOutcome = "none"
    /\ afterReset = FALSE
    /\ movingMarkers = << >>
    /\ stepTimers = {}
    /\ resetTimers = [r \in RouteIds |-> 0]
    /\ markerInitTimer = TRUE
    /\ testStartTimer = FALSE
    /\ nodeTypes = [n \in NodeIds |-> nodesData[n].type]
    /\ routeSpeed = [r \in RouteIds |-> routesData[r].speed]
    /\ wallClock = 0
    /\ dispatchLog = {}
    /\ shadow = [currentScenario |-> currentScenario, isPlaying |-> isPlaying,
                 nodeState |-> nodeState, co2Data |-> co2Data,
                 arrivalTimers |-> arrivalTimers]

\* the simulation loop, its controls and its shipment timers
Next ==
    \/ ToggleSimulation
    \/ AnimationFrameCallback
    \/ ResetSimulation
    \/ \E v \in Speeds : SetSpeed(v)
    \/ \E s \in Scenarios : SetScenario(s)
    \/ \E a \in BagToSet(arrivalTimers) : ShipmentArrival(a)
    \/ MapLoaded

\* the vehicle animator beside the controls that start, stop and reset the loop
NextAnimator ==
    \/ ToggleSimulation
    \/ AnimationFrameCallback
    \/ ResetSimulation
    \/ \E v \in Speeds : SetSpeed(v)
    \/ MapLoaded
    \/ InitializeMovingMarkers
    \/ TestVehicleStart
    \/ \E r \in RouteIds : StartVehicleMovement(r)
    \/ \E r \in RouteIds : AnimateTimer(r)
    \/ \E r \in RouteIds : ArrivalResetTimer(r)

Spec == Init /\ [][Next]_vars

\* node types a configuration may give: the loaded one, and one in which
\* N1_SWE is no manufacturing node while N5_FAC is
TypeConfigs ==
    {[n \in NodeIds |-> nodesData[n].type],
     [N1_SWE |-> "retail", N5_FAC |-> "manufacturing", S1_STORE |-> "warehouse"]}

\* production_rate (doubled, see RateDen) the node state records are loaded with
LoadedRates == [N1_SWE |-> 130, N5_FAC |-> 64, S1_STORE |-> 0]

\* a run picked up at one of the start times, under one of the configurations,
\* with the map present
InitUpdater ==
    /\ isPlaying = FALSE
    /\ simulationSpeed = 1
    /\ currentScenario = "baseline"
    /\ simulationTime \in StartTimes
    /\ currentDate = simulationTime
    /\ nodeTypes \in TypeConfigs
    /\ routeSpeed = [r \in RouteIds |-> routesData[r].speed]
    /\ wallClock = 0
    /\ dispatchLog = {}
    /\ nodeState = [n \in NodeIds |->
                      [stock |-> nodesData[n].initial_stock,
                       capacity |-> nodesData[n].capacity,
                       production_rate |-> LoadedRates[n], sales_rate |-> 0,
                       inbound_rate |-> 0, outbound_rate |-> 0]]
    /\ co2Data = [s \in Scenarios |-> ZeroEmissions]
    /\ scenarioComparison =
           IF simulationTime = 0 THEN EmptySeries ELSE updateCharts(EmptySeries, 0)
    /\ windowMap = TRUE
    /\ theMap = TRUE
    /\ rafQueue = 0
    /\ frameRun = 0
    /\ arrivalTimers = EmptyBag
    /\ stepOutcome = "none"
    /\ afterReset = FALSE
    /\ movingMarkers = << >>
    /\ stepTimers = {}
    /\ resetTimers = [r \in RouteIds |-> 0]
    /\ markerInitTimer = TRUE
    /\ testStartTimer = FALSE
    /\ shadow = [currentScenario |-> currentScenario, isPlaying |-> isPlaying,
                 nodeState |-> nodeState, co2Data |-> co2Data,
                 arrivalTimers |-> arrivalTimers]

\* the simulation loop across months, scenarios and node types
NextUpdater ==
    \/ ToggleSimulation
    \/ AnimationFrameCallback
    \/ \E s \in Scenarios : SetScenario(s)

SpecUpdater == InitUpdater /\ [][NextUpdater]_vars

SpecAnimator == Init /\ [][NextAnimator]_vars

\* the vehicles alone: their timers, the start calls, the speed slider and the
\* reset button, outside any animation frame
NextVehicles ==
    \/ ResetSimulation
    \/ \E v \in Speeds : SetSpeed(v)
    \/ MapLoaded
    \/ InitializeMovingMarkers
    \/ TestVehicleStart
    \/ \E r \in RouteIds : StartVehicleMovement(r)
    \/ \E r \in RouteIds : AnimateTimer(r)
    \/ \E r \in RouteIds : ArrivalResetTimer(r)

\* setTimeout runs a pending callback once its delay has passed: the 3 s pause
\* of every arrival ends (nothing in the source clears that timeout)
ArrivalPauseEnds == \A r \in RouteIds : WF_vars(ArrivalResetTimer(r))

SpecVehicles == Init /\ [][NextVehicles]_vars /\ ArrivalPauseEnds

\* every pending timeout of the animator runs: the animate timeout of a trip
\* as well as the 3 s pause of an arrival
TimeoutsRun ==
    \A r \in RouteIds : WF_vars(AnimateTimer(r)) /\ WF_vars(ArrivalResetTimer(r))

SpecTrips == Init /\ [][NextVehicles]_vars /\ TimeoutsRun

-----------------------------------------------------------------------------
(* Timed runs.  The display shows FrameHz frames per second of real time,   *)
(* the rate deltaTime = 1/60 assumes; wallClock counts them.  A timeout is  *)
(* due when its delay of real time has passed since setTimeout was called,  *)
(* and a due timeout runs before the next frame.                            *)

\* a route fast enough for its shipments to arrive within a few frames
\* (10 km in 50 ms); the other routes as loaded
CourierSpeeds ==
    [r \in RouteIds |-> IF r = "china_poland" THEN 720000 ELSE routesData[r].speed]

\* frames that pass before a timeout of `ms` milliseconds is due
DelayFrames(ms) == (ms * FrameHz + MsPerSecond - 1) \div MsPerSecond

\* the timeouts set by the step, logged with their due frame and the
\* simulationTime of their dispatch
LogDispatch ==
    dispatchLog' = dispatchLog \cup
        {[timer |-> t, due |-> wallClock' + DelayFrames(t.delay), sent |-> simulationTime'] :
            t \in BagToSet(arrivalTimers' (-) arrivalTimers)}

\* no timeout waits that is due
NoneDue == \A e \in dispatchLog : e.due > wallClock

\* click on playPauseBtn while paused: the first tick runs within the click
ClockPlay ==
    /\ ~isPlaying
    /\ NoneDue
    /\ ToggleWithin(MaxClockTime, MaxClockArrivals)
    /\ wallClock' = wallClock
    /\ UNCHANGED pairVars
    /\ LogDispatch

\* 1/60 s of real time passes and the next frame runs its callback
ClockFrame ==
    /\ NoneDue
    /\ FrameCallbackWithin(MaxClockTime, MaxClockArrivals)
    /\ wallClock' = wallClock + (IF frameRun = 0 THEN 1 ELSE 0)
    /\ UNCHANGED pairVars
    /\ LogDispatch

\* a due arrival timeout runs
ClockArrival(e) ==
    /\ e \in dispatchLog
    /\ e.due <= wallClock
    /\ ArrivalCallback(e.timer)
    /\ dispatchLog' = dispatchLog \ {e}
    /\ wallClock' = wallClock
    /\ UNCHANGED pairVars

\* the page loaded with the map present and the fast route; the run is picked
\* up at one of the start times with the slider at one of its values
InitClock ==
    /\ isPlaying = FALSE
    /\ simulationSpeed \in Speeds
    /\ currentScenario \in Scenarios
    /\ simulationTime \in StartTimes
    /\ currentDate = simulationTime
    /\ nodeTypes = [n \in NodeIds |-> nodesData[n].type]
    /\ routeSpeed = CourierSpeeds
    /\ nodeState = [n \in NodeIds |->
                      [stock |-> nodesData[n].initial_stock,
                       capacity |-> nodesData[n].capacity,
                       production_rate |-> 0, sales_rate |-> 0,
                       inbound_rate |-> 0, outbound_rate |-> 0]]
    /\ co2Data = [s \in Scenarios |-> ZeroEmissions]
    /\ scenarioComparison =
           IF simulationTime = 0 THEN EmptySeries ELSE updateCharts(EmptySeries, 0)
    /\ windowMap = TRUE
    /\ theMap = TRUE
    /\ rafQueue = 0
    /\ frameRun = 0
    /\ arrivalTimers = EmptyBag
    /\ stepOutcome = "none"
    /\ afterReset = FALSE
    /\ movingMarkers = << >>
    /\ stepTimers = {}
    /\ resetTimers = [r \in RouteIds |-> 0]
    /\ markerInitTimer = TRUE
    /\ testStartTimer = FALSE
    /\ wallClock = 0
    /\ dispatchLog = {}
    /\ shadow = [currentScenario |-> currentScenario, isPlaying |-> isPlaying,
                 nodeState |-> nodeState, co2Data |-> co2Data,
                 arrivalTimers |-> arrivalTimers]

NextClock ==
    \/ ClockPlay
    \/ ClockFrame
    \/ \E e \in dispatchLog : ClockArrival(e)

SpecClock == InitClock /\ [][NextClock]_vars

-----------------------------------------------------------------------------
(* Paired runs.  A second run, shadow, starts from the same state and gets  *)
(* every click on play/pause and reset, every frame callback and every      *)
(* arrival timeout the first run gets, with the same speed and the same     *)
(* map; only its scenario selections are its own.  shadow holds what a      *)
(* scenario can reach: the selection, isPlaying, nodeState, co2Data and     *)
(* the pending arrival timeouts.  The first run makes no selection and      *)
(* stays under the scenario it loaded with: two runs that each agree with   *)
(* it agree with each other.                                                *)

\* simulationStep on the second run, `playing` being its isPlaying at the call
shadowStep(sh, playing) ==
    IF ~playing \/ ~(theMap \/ windowMap) THEN [sh EXCEPT !.isPlaying = playing]
    ELSE LET time == simulationTime + simulationSpeed
             updated == updateNodeStates(sh.nodeState, time, sh.currentScenario)
             shipped == processShipments(updated, sh.co2Data, sh.arrivalTimers,
                                         sh.currentScenario)
         IN  [sh EXCEPT !.isPlaying = ~shipped.threw,
                        !.nodeState = shipped.ns,
                        !.co2Data = shipped.co2,
                        !.arrivalTimers = shipped.timers]

\* click on playPauseBtn in both runs
PairToggle ==
    /\ ToggleWithin(MaxTime, MaxArrivals)
    /\ shadow' = IF ~shadow.isPlaying THEN shadowStep(shadow, TRUE)
                 ELSE [shadow EXCEPT !.isPlaying = FALSE]
    /\ UNCHANGED clockVars

\* a frame callback runs in both runs
PairFrame ==
    /\ FrameCallbackWithin(MaxTime, MaxArrivals)
    /\ shadow' = shadowStep(shadow, shadow.isPlaying)
    /\ UNCHANGED clockVars

\* the arrival timeout of a shipment fires in both runs
PairArrival(a) ==
    /\ ArrivalCallback(a)
    /\ shadow' =
         IF ~BagIn(a, shadow.arrivalTimers) THEN shadow
         ELSE [shadow EXCEPT
                 !.arrivalTimers = @ (-) SetToBag({a}),
                 !.nodeState =
                     IF a.to \in DOMAIN shadow.nodeState
                     THEN [shadow.nodeState EXCEPT
                             ![a.to].stock = Min(shadow.nodeState[a.to].capacity,
                                                 @ + a.size),
                             ![a.to].inbound_rate = @ + a.size]
                     ELSE shadow.nodeState]
    /\ UNCHANGED clockVars

\* click on resetBtn in both runs
PairReset ==
    /\ resetSimulation
    /\ shadow' = [shadow EXCEPT
                    !.isPlaying = FALSE,
                    !.nodeState = [n \in DOMAIN shadow.nodeState |->
                                     [shadow.nodeState[n] EXCEPT
                                         !.stock = nodesData[n].initial_stock,
                                         !.inbound_rate = 0,
                                         !.outbound_rate = 0]],
                    !.co2Data = [s \in DOMAIN shadow.co2Data |-> ZeroEmissions]]
    /\ UNCHANGED clockVars

\* change on scenarioSelector in the second run only
ShadowSetScenario(s) ==
    /\ frameRun = 0
    /\ s # shadow.currentScenario
    /\ shadow' = [shadow EXCEPT !.currentScenario = s]
    /\ UNCHANGED <<stepOutcome, theMap>>
    /\ UNCHANGED inventoryVars
    /\ UNCHANGED animVars
    /\ UNCHANGED configVars
    /\ UNCHANGED clockVars

NextPair ==
    \/ PairToggle
    \/ PairFrame
    \/ PairReset
    \/ \E a \in BagToSet(arrivalTimers) : PairArrival(a)
    \/ \E v \in Speeds : SetSpeed(v)
    \/ \E s \in Scenarios : ShadowSetScenario(s)
    \/ MapLoaded

\* both runs in the state DOMContentLoaded leaves, under one of the node type
\* configurations
InitPair ==
    /\ isPlaying = FALSE
    /\ simulationSpeed = 1
    /\ currentScenario = "baseline"
    /\ simulationTime = 0
    /\ currentDate = 0
    /\ nodeState = [n \in NodeIds |->
                      [stock |-> nodesData[n].initial_stock,
                       capacity |-> nodesData[n].capacity,
                       production_rate |-> 0, sales_rate |-> 0,
                       inbound_rate |-> 0, outbound_rate |-> 0]]
    /\ co2Data = [s \in Scenarios |-> ZeroEmissions]
    /\ scenarioComparison = EmptySeries
    /\ windowMap \in BOOLEAN
    /\ theMap = windowMap
    /\ rafQueue = 0
    /\ frameRun = 0
    /\ arrivalTimers = EmptyBag
    /\ stepOutcome = "none"
    /\ afterReset = FALSE
    /\ movingMarkers = << >>
    /\ stepTimers = {}
    /\ resetTimers = [r \in RouteIds |-> 0]
    /\ markerInitTimer = TRUE
    /\ testStartTimer = FALSE
    /\ nodeTypes \in TypeConfigs
    /\ routeSpeed = [r \in RouteIds |-> routesData[r].speed]
    /\ wallClock = 0
    /\ dispatchLog = {}
    /\ shadow = [currentScenario |-> currentScenario, isPlaying |-> isPlaying,
                 nodeState |-> nodeState, co2Data |-> co2Data,
                 arrivalTimers |-> arrivalTimers]

SpecPair == InitPair /\ [][NextPair]_vars

-----------------------------------------------------------------------------
(* Properties *)

\* a step in which a tick ran: every tick advances the clock, nothing else does
TickStep == simulationTime' > simulationTime

\* the keys of one scenario's emission accumulator
AccumulatorKeys == {"truck", "rail", "air"}

\* C1: for every node, in every state reachable by ticks, deferred shipment
\* arrivals and resets, 0 <= stock <= capacity.
C1_StockWithinCapacity ==
    \A n \in DOMAIN nodeState :
        /\ 0 <= nodeState[n].stock
        /\ nodeState[n].stock <= nodeState[n].capacity

\* C1 witness: an arrival larger than the room left was clamped at the
\* destination's capacity, after the retail node shipped and kept selling.
C1_Witness ==
    /\ nodeState["N5_FAC"].stock = nodeState["N5_FAC"].capacity
    /\ nodeState["N5_FAC"].inbound_rate > nodeState["N5_FAC"].capacity
    /\ nodeState["S1_STORE"].stock < nodesData["S1_STORE"].initial_stock
    /\ nodeState["S1_STORE"].sales_rate > 0

\* C2: after resetSimulation every node's stock is its initial_stock, every
\* scenario's truck, rail and air accumulator is 0 and every scenario's
\* comparison series is empty.
C2_ResetRestoresAll ==
    [][ResetSimulation =>
        /\ \A n \in DOMAIN nodeState :
               nodeState'[n].stock = nodesData[n].initial_stock
        /\ \A s \in Scenarios : \A t \in AccumulatorKeys :
               co2Data'[s][t] = JsNum(0)
        /\ \A s \in Scenarios : scenarioComparison'[s] = << >>]_vars

\* C3: in a tick that completes, every route (truck, rail, air or multimodal)
\* whose source stock exceeds 0.8 * capacity when the shipment pass starts takes
\* exactly min(capacity, stock) from its source and adds exactly
\* shipment_size * distance * emission to the active scenario's accumulator
\* of its vehicle type.
C3_ShipmentExact ==
    [][(TickStep /\ stepOutcome' = "ran") =>
        LET pre == updateNodeStates(nodeState, simulationTime', currentScenario) IN
        \A r \in RouteIds :
            LET route == routesData[r]
                stock == pre[route.from].stock
                shipmentSize == Min(route.capacity, stock)
                emissions ==
                    shipmentSize
                    * calculateDistance(nodesData[route.from].coords,
                                        nodesData[route.to].coords)
                    * route.emission
            IN  stock * 5 > route.capacity * 4 =>
                   /\ nodeState'[route.from].stock = stock - shipmentSize
                   /\ co2Data'[currentScenario][route.vehicle] =
                          JsNum(co2Data[currentScenario][route.vehicle].v + emissions)
      ]_vars

\* C4: resetSimulation and stopSimulation (the pause click) cancel every
\* pending animation step timer and every pending arrival-reset timer.
C4_StopCancelsAnimatorTimers ==
    [][(ResetSimulation \/ (ToggleSimulation /\ isPlaying)) =>
        /\ stepTimers' = {}
        /\ \A r \in RouteIds : resetTimers'[r] = 0]_vars

\* C5: a pause or a reset leaves the pending shipment arrivals pending, and
\* an arrival that fires after a reset lands: as long as no tick has run since
\* the reset, each node's stock is its initial_stock plus what arrived since,
\* clamped at capacity, and its inbound_rate is what arrived since.
C5_LateArrivalLands ==
    [][/\ (ResetSimulation \/ (ToggleSimulation /\ isPlaying)) =>
              arrivalTimers' = arrivalTimers
       /\ afterReset' =>
              \A n \in DOMAIN nodeState :
                  nodeState'[n].stock =
                      Min(nodeState'[n].capacity,
                          nodesData[n].initial_stock + nodeState'[n].inbound_rate)
      ]_vars

\* C5 witness: no tick since the reset, and a node's stock is not its initial_stock.
C5_Witness ==
    /\ afterReset
    /\ \E n \in DOMAIN nodeState :
           /\ nodeState[n].stock # nodesData[n].initial_stock
           /\ nodeState[n].inbound_rate > 0

\* C6: a frame callback that runs while isPlaying is false changes neither the
\* clock, the nodes nor the accumulators, and requests no further callback.
C6_PausedCallbackIsInert ==
    [][(AnimationFrameCallback /\ ~isPlaying) =>
        /\ UNCHANGED <<simulationTime, currentDate, nodeState, co2Data,
                       scenarioComparison, arrivalTimers, isPlaying>>
        /\ rafQueue' + frameRun' = rafQueue + frameRun - 1]_vars

\* C6 witness: the last simulationStep call returned at the isPlaying check,
\* which only a frame callback left over from before the pause can do.
C6_Witness ==
    /\ stepOutcome = "paused"
    /\ ~isPlaying
    /\ simulationTime > 0
    /\ rafQueue = 0
    /\ frameRun = 0

\* C7: each animation frame runs exactly one tick, a tick advances
\* simulationTime by exactly (1/60) * simulationSpeed, and simulationTime only
\* decreases when a reset sets it to 0.
C7_OneTickPerFrame ==
    [][/\ (AnimationFrameCallback /\ frameRun > 0) => simulationTime' = simulationTime
       /\ TickStep => simulationTime' = simulationTime + simulationSpeed
       /\ simulationTime' < simulationTime => (ResetSimulation /\ simulationTime' = 0)
      ]_vars

\* C8: a tick that throws is caught: isPlaying becomes false, the tick requests
\* no frame callback, and what it did before the failure stays: the clock and
\* the date are advanced, the nodes' rates are the updated ones, no pending
\* arrival is dropped and no accumulator goes back.
C8_ThrowingTickPauses ==
    [][(TickStep /\ stepOutcome' = "threw") =>
        LET upd == updateNodeStates(nodeState, simulationTime', currentScenario) IN
        /\ isPlaying' = FALSE
        /\ rafQueue' <= rafQueue
        /\ simulationTime' = simulationTime + simulationSpeed
        /\ currentDate' = simulationTime'
        /\ \A n \in DOMAIN nodeState :
               /\ nodeState'[n].sales_rate = upd[n].sales_rate
               /\ nodeState'[n].production_rate = upd[n].production_rate
               /\ nodeState'[n].stock <= upd[n].stock
        /\ arrivalTimers \sqsubseteq arrivalTimers'
        /\ \A t \in AccumulatorKeys :
               co2Data'[currentScenario][t].v >= co2Data[currentScenario][t].v
      ]_vars

\* C8 witness: the last tick threw and left the simulation paused, with the
\* shipment it dispatched before the failing route still pending.
C8_Witness ==
    /\ stepOutcome = "threw"
    /\ ~isPlaying
    /\ simulationTime > 0
    /\ \E a \in BagToSet(arrivalTimers) : a.to = "S1_STORE" /\ a.size = 140

\* C9: a simulationStep call that finds no map leaves simulationTime,
\* currentDate, every node's stock and rates and every accumulator as they were.
C9_NoMapSkipsTick ==
    [][((ToggleSimulation \/ AnimationFrameCallback) /\ isPlaying'
            /\ ~(theMap \/ windowMap)) =>
        UNCHANGED <<simulationTime, currentDate, nodeState, co2Data>>]_vars

\* C9 witness: the last simulationStep call returned at the map check.
C9_Witness ==
    /\ stepOutcome = "nomap"
    /\ isPlaying
    /\ ~theMap

\* C10: an accumulator changes only in a tick, and then only the active
\* scenario's, or in a reset, which sets it to zero.
C10_OnlyActiveScenarioAccumulates ==
    [][\A s \in Scenarios :
          co2Data'[s] # co2Data[s] =>
              \/ TickStep /\ s = currentScenario
              \/ ResetSimulation /\ co2Data'[s] = ZeroEmissions]_vars

\* C10 witness: shipments ran under two scenarios and the third accumulated nothing.
C10_Witness ==
    /\ co2Data["baseline"]["rail"].v > 0
    /\ co2Data["local_source"]["multimodal"].k = "NaN"
    /\ co2Data["local_source"]["rail"].v = 0
    /\ co2Data["green_rail"] = ZeroEmissions

\* C11: a tick run under local_source leaves N1_SWE with production_rate 0,
\* whatever N1_SWE's type, the month and the rate it had before.
C11_LocalSourceZeroesN1 ==
    [][(TickStep /\ currentScenario = "local_source") =>
          nodeState'["N1_SWE"].production_rate = 0]_vars

\* C11 witness: in August, a tick under local_source has zeroed the rate of a
\* manufacturing N1_SWE, whose stock that tick still raised.
C11_Witness ==
    /\ currentScenario = "local_source"
    /\ stepOutcome = "ran"
    /\ nodeTypes["N1_SWE"] = "manufacturing"
    /\ MonthOf(currentDate) = 8
    /\ nodeState["N1_SWE"].production_rate = 0
    /\ nodeState["N1_SWE"].stock > nodesData["N1_SWE"].initial_stock

\* the multiplier of each calendar month, January first, in tenths
MultiplierOfMonth == <<13, 10, 10, 10, 10, 8, 8, 18, 18, 10, 10, 10>>

\* C13: the multiplier a tick applies depends on the calendar month of the new
\* date alone: every retail node's sales_rate is 20 times the month's
\* multiplier and, under baseline, every manufacturing node's production_rate
\* is 50 times it, with 1.8 for months 8 and 9, 1.3 for month 1, 0.8 for
\* months 6 and 7 and 1.0 otherwise.
C13_MultiplierByMonth ==
    [][TickStep =>
        LET tenths == MultiplierOfMonth[MonthOf(currentDate')] IN
        /\ getSeasonalityMultiplier(currentDate') = tenths
        /\ \A n \in DOMAIN nodeState :
              /\ nodeTypes[n] = "retail" =>
                    nodeState'[n].sales_rate * 10 = BaseSales * tenths * RateDen
              /\ (nodeTypes[n] = "manufacturing" /\ currentScenario = "baseline") =>
                    nodeState'[n].production_rate * 10 = BaseProduction * tenths * RateDen
      ]_vars

\* C13 witness: a tick in the January of the year after the start year has
\* applied January's 1.3 to the retail node.
C13_Witness ==
    /\ stepOutcome = "ran"
    /\ currentDate > 366 * DayTicks
    /\ MonthOf(currentDate) = 1
    /\ nodeTypes["S1_STORE"] = "retail"
    /\ nodeState["S1_STORE"].sales_rate * 10 = BaseSales * 13 * RateDen

\* C16: the three comparison series have the same length and none holds a
\* day label twice.
C16_SeriesDeduplicated ==
    \A s \in Scenarios :
        /\ Len(scenarioComparison[s]) = Len(scenarioComparison["baseline"])
        /\ \A i, j \in 1..Len(scenarioComparison[s]) :
               i # j => scenarioComparison[s][i] # scenarioComparison[s][j]

\* C16 witness: the series hold the labels 0 and 1, and the tick after the one
\* that appended 1 ran updateCharts again.
C16_Witness ==
    /\ stepOutcome = "ran"
    /\ scenarioComparison["green_rail"] = <<0, 1>>
    /\ simulationTime > DayTicks \div 2
    /\ ((simulationTime \div FrameHz) % 60) = 0

\* C20: a tick run under local_source leaves N5_FAC with 1.5 times its base
\* production rate (50 times the month's multiplier for a manufacturing node,
\* the rate it was loaded with otherwise), however many ticks ran before.
C20_N5RateNotCompounded ==
    [][(TickStep /\ currentScenario = "local_source") =>
        LET base == IF nodeTypes["N5_FAC"] = "manufacturing"
                    THEN (BaseProduction * getSeasonalityMultiplier(currentDate')
                            * RateDen) \div 10
                    ELSE LoadedRates["N5_FAC"]
        IN  nodeState'["N5_FAC"].production_rate * 2 = base * 3]_vars

\* total size of the timers of bag `timers` that are in `elems`
RECURSIVE SumSizes(_, _)
SumSizes(timers, elems) ==
    IF elems = {} THEN 0
    ELSE LET a == CHOOSE x \in elems : TRUE IN
         a.size * timers[a] + SumSizes(timers, elems \ {a})

\* C14: in a tick, updateNodeStates leaves every inbound_rate and outbound_rate
\* at 0, and after the shipment pass each node's outbound_rate is the total
\* size of the shipments the tick dispatched from it, which is also what left
\* its stock; its inbound_rate is still 0.
C14_RatesResetThenAccumulated ==
    [][TickStep =>
        LET upd == updateNodeStates(nodeState, currentDate', currentScenario)
            new == arrivalTimers' (-) arrivalTimers
        IN  \A n \in DOMAIN nodeState :
              LET dests == {routesData[r].to : r \in {x \in RouteIds : routesData[x].from = n}}
                  sent == {a \in BagToSet(new) : a.to \in dests}
              IN  /\ upd[n].inbound_rate = 0
                  /\ upd[n].outbound_rate = 0
                  /\ nodeState'[n].inbound_rate = 0
                  /\ nodeState'[n].outbound_rate = SumSizes(new, sent)
                  /\ nodeState'[n].outbound_rate = upd[n].stock - nodeState'[n].stock
      ]_vars

\* C14 witness: the retail node, which an arrival had given an inbound_rate,
\* shipped 150 in the last tick: its outbound_rate is 150, its inbound_rate 0.
C14_Witness ==
    /\ stepOutcome = "ran"
    /\ nodeState["S1_STORE"].outbound_rate = 150
    /\ nodeState["S1_STORE"].inbound_rate = 0
    /\ \E a \in BagToSet(arrivalTimers) : a.to = "N5_FAC" /\ a.size = 150

\* C12: on a route with exactly 2 waypoints, a start leaves one step timer
\* pending whose delay is distance / speed * 3600000 / simulationSpeed for the
\* simulationSpeed of that moment, and that timer's firing is the arrival:
\* currentPosition is 2, the moving flag is clear, no step timer is pending
\* and the arrival pause has begun.
C12_TwoWaypointTrip ==
    [][\A r \in RouteIds :
         (r \in DOMAIN movingMarkers /\ Len(routeCoordinates[r]) = 2) =>
            /\ (~movingMarkers[r].isMoving /\ movingMarkers'[r].isMoving) =>
                  /\ movingMarkers'[r].currentPosition = 1
                  /\ r \in stepTimers'
                  /\ stepDuration(movingMarkers'[r], r) * routeSpeed[r]
                        * simulationSpeed
                     = calculateRouteDistance(routeCoordinates[r]) * MsPerHour
            /\ (AnimateTimer(r) /\ movingMarkers[r].isMoving) =>
                  /\ ~movingMarkers'[r].isMoving
                  /\ movingMarkers'[r].currentPosition = 2
                  /\ r \notin stepTimers'
                  /\ resetTimers'[r] = resetTimers[r] + 1
      ]_vars

\* C17: a route with fewer than 2 waypoints has no vehicle record, no step
\* timer and no arrival pause, and a start call (explicit, or the test start)
\* on a vehicle that is moving changes no vehicle and schedules no timer.
C17_StartIsGuarded ==
    [][\A r \in RouteIds :
         /\ Len(routeCoordinates[r]) < 2 =>
               /\ r \notin DOMAIN movingMarkers'
               /\ r \notin stepTimers'
               /\ resetTimers'[r] = 0
         /\ ( /\ StartVehicleMovement(r) \/ (TestVehicleStart /\ r = "china_poland")
              /\ r \in DOMAIN movingMarkers
              /\ movingMarkers[r].isMoving ) =>
               UNCHANGED <<movingMarkers, stepTimers, resetTimers>>
      ]_vars

\* C17 witness: the markers exist, the one-waypoint route has none, and after
\* the test start fired the three-waypoint vehicle is moving at position 2
\* with its step timer pending.
C17_Witness ==
    /\ ~markerInitTimer
    /\ ~testStartTimer
    /\ DOMAIN movingMarkers = {"china_poland", "store_return"}
    /\ movingMarkers["china_poland"].isMoving
    /\ movingMarkers["china_poland"].currentPosition = 2
    /\ "china_poland" \in stepTimers

\* C18: whenever a frame callback can run a tick, that tick can turn any
\* idle vehicle into a moving one.
C18_TickMayStartVehicle ==
    \A r \in DOMAIN movingMarkers :
        ( /\ ~movingMarkers[r].isMoving
          /\ simulationTime > 0
          /\ ENABLED (AnimationFrameCallback /\ TickStep) ) =>
            ENABLED (AnimationFrameCallback /\ TickStep /\ movingMarkers'[r].isMoving)

\* C19: every arrival of a vehicle (its 3 s pause is pending) is eventually
\* followed by a state in which the vehicle's marker stands on the first
\* waypoint, its currentPosition is 0, it is not moving and it has no animate
\* timeout pending.
C19_ArrivalLeadsToReset ==
    \A r \in RouteIds :
        (resetTimers[r] > 0) ~>
            ( /\ r \in DOMAIN movingMarkers
              /\ movingMarkers[r].marker = 0
              /\ movingMarkers[r].currentPosition = 0
              /\ ~movingMarkers[r].isMoving
              /\ r \notin stepTimers )

\* the test vehicle has been started by the 2 s timer, has arrived and has been
\* put back by the timer of its arrival
C19_Witness ==
    /\ ~markerInitTimer
    /\ ~testStartTimer
    /\ "china_poland" \in DOMAIN movingMarkers
    /\ movingMarkers["china_poland"].marker = 0
    /\ movingMarkers["china_poland"].currentPosition = 0
    /\ ~movingMarkers["china_poland"].isMoving
    /\ "china_poland" \notin stepTimers
    /\ resetTimers["china_poland"] = 0

\* C15: for every simulation speed, while the simulation keeps playing, the
\* destination update of a shipment is applied when simulationTime has
\* advanced by (distance / route.speed) * 3600 simulated seconds since the
\* dispatch, that is by delay / 1000 seconds for the delay of its timeout.
C15_ArrivalAfterSimulatedDelay ==
    [][\A e \in dispatchLog :
         (ClockArrival(e) /\ isPlaying) =>
            (simulationTime - e.sent) * MsPerSecond = e.timer.delay * FrameHz]_vars

C23_TripReachesItsEnd ==
    \A r \in RouteIds :
        (r \in DOMAIN movingMarkers /\ movingMarkers[r].isMoving) ~>
            ( /\ r \in DOMAIN movingMarkers
              /\ ~movingMarkers[r].isMoving
              /\ movingMarkers[r].currentPosition >= Len(routeCoordinates[r]) )

\* C21: two runs from the same initial state that get the same ticks, timer
\* firings, speed changes and resets, and differ only in their scenario
\* selections, have the same stock at every node in every corresponding state,
\* the same shipments dispatched and pending, and the same isPlaying.
C21_StockIndependentOfScenario ==
    /\ \A n \in NodeIds : nodeState[n].stock = shadow.nodeState[n].stock
    /\ arrivalTimers = shadow.arrivalTimers
    /\ isPlaying = shadow.isPlaying

\* the runs are under different scenarios, the override has made their
\* production_rate differ at N1_SWE, production has raised its stock and a
\* shipment of it is under way
C21_Witness ==
    /\ currentScenario # shadow.currentScenario
    /\ nodeState["N1_SWE"].production_rate # shadow.nodeState["N1_SWE"].production_rate
    /\ nodeState["N1_SWE"].outbound_rate > 0
    /\ \E a \in BagToSet(arrivalTimers) : a.to = "S1_STORE"

====
